---- MODULE Spec2Model ----
(***************************************************************************)
(* Model of a1.py: the Streamlit multi-stock technical analysis page.      *)
(*                                                                         *)
(* Two views of the program are specified.                                 *)
(*   ComputeSpec  the body of compute_indicators applied once to a price   *)
(*                series under a configuration (the pure computation).     *)
(*   Spec         the Streamlit session: the script runs top to bottom,    *)
(*                the user changes a sidebar widget, the script reruns;    *)
(*                compute_indicators is wrapped by st.cache_data.          *)
(*   LiveSpec     Spec plus the fairness of the script's own steps.        *)
(*                                                                         *)
(* Floating point values are modelled as exact rationals extended with     *)
(* NaN and +/-infinity, with the IEEE-754 rules for the special values.    *)
(* A DataFrame is a record from column names to columns; only the Close    *)
(* column of the downloaded frame is modelled (Open, High, Low and Volume  *)
(* are only passed through to the charts).  Sequences are 1-based: index   *)
(* i of the program is index i+1 here.                                     *)
(***************************************************************************)
EXTENDS Integers, Sequences, FiniteSets, TLC

\* ---------------------------------------------------------------- bounds
\* longest price series given to the computation
MaxLen == 3
\* closes are drawn from 0..MaxPrice
MaxPrice == 2
\* periods are drawn from 1..MaxPeriod
MaxPeriod == 3
\* longest price series the data source returns in a session
AppMaxLen == 1
\* closes the data source returns in a session are drawn from 1..AppMaxPrice
AppMaxPrice == 1
\* number of script runs in a session
MaxRuns == 2

\* ----------------------------------------------------- strict evaluation
\* Op applied to its arguments, each evaluated once and bound before use
\* (Python evaluates arguments before the call)
Strict1(Op(_), a) == CHOOSE r \in {Op(x) : x \in {a}} : TRUE

Strict2(Op(_, _), a, b) == CHOOSE r \in {Op(x, y) : x \in {a}, y \in {b}} : TRUE

Strict3(Op(_, _, _), a, b, c) ==
  CHOOSE r \in {Op(x, y, z) : x \in {a}, y \in {b}, z \in {c}} : TRUE

\* ------------------------------------------------- floating point values
Abs(x) == IF x < 0 THEN -x ELSE x

RECURSIVE GCD(_, _)
GCDStep(a, b) == GCD(b, a % b)

GCD(a, b) == IF b = 0 THEN a ELSE Strict2(GCDStep, a, b)

LCM(a, b) == (a \div GCD(a, b)) * b

\* n/d with the common factor g removed and a positive denominator
Reduced(n, d, g) ==
  IF d < 0 THEN [k |-> "num", n |-> (-n) \div g, d |-> (-d) \div g]
  ELSE [k |-> "num", n |-> n \div g, d |-> d \div g]

RatOf(n, d) == Strict3(Reduced, n, d, GCD(Abs(n), Abs(d)))

\* the rational n/d in lowest terms
Rat(n, d) == Strict2(RatOf, n, d)

F(n) == [k |-> "num", n |-> n, d |-> 1]

NaN == [k |-> "nan", n |-> 0, d |-> 1]

Inf(s) == [k |-> "inf", n |-> s, d |-> 1]

IsNaN(a) == a.k = "nan"

IsNum(a) == a.k = "num"

Sign(x) == IF x < 0 THEN -1 ELSE IF x > 0 THEN 1 ELSE 0

NegOf(a) == IF a.k = "nan" THEN NaN ELSE [a EXCEPT !.n = -a.n]

FNeg(a) == Strict1(NegOf, a)

\* a + b over the common denominator l
OverCommon(a, b, l) == Rat(a.n * (l \div a.d) + b.n * (l \div b.d), l)

AddOf(a, b) ==
  IF a.k = "nan" \/ b.k = "nan" THEN NaN
  ELSE IF a.k = "inf" /\ b.k = "inf" THEN (IF a.n = b.n THEN a ELSE NaN)
  ELSE IF a.k = "inf" THEN a
  ELSE IF b.k = "inf" THEN b
  ELSE IF a.d = 1 /\ b.d = 1 THEN F(a.n + b.n)
  ELSE OverCommon(a, b, LCM(a.d, b.d))

FAdd(a, b) == Strict2(AddOf, a, b)

FSub(a, b) == FAdd(a, FNeg(b))

\* a * b with the common factors g1 of a.n, b.d and g2 of b.n, a.d removed
CrossReduced(a, b, g1, g2) ==
  Rat((a.n \div g1) * (b.n \div g2), (a.d \div g2) * (b.d \div g1))

MulOf(a, b) ==
  IF a.k = "nan" \/ b.k = "nan" THEN NaN
  ELSE IF a.k = "inf" \/ b.k = "inf"
       THEN (IF a.n = 0 \/ b.n = 0 THEN NaN ELSE Inf(Sign(a.n) * Sign(b.n)))
  ELSE IF a.d = 1 /\ b.d = 1 THEN F(a.n * b.n)
  ELSE CrossReduced(a, b, GCD(Abs(a.n), b.d), GCD(Abs(b.n), a.d))

FMul(a, b) == Strict2(MulOf, a, b)

DivOf(a, b) ==
  IF a.k = "nan" \/ b.k = "nan" THEN NaN
  ELSE IF a.k = "inf" THEN (IF b.k = "inf" THEN NaN
                            ELSE Inf(IF b.n < 0 THEN -a.n ELSE a.n))
  ELSE IF b.k = "inf" THEN F(0)
  ELSE IF b.n = 0 THEN (IF a.n = 0 THEN NaN ELSE Inf(Sign(a.n)))
  ELSE MulOf(a, Rat(b.d, b.n))

FDiv(a, b) == Strict2(DivOf, a, b)

\* a > b and a < b; every comparison with NaN is false
GtOf(a, b) ==
  /\ a.k # "nan" /\ b.k # "nan"
  /\ IF a.k = "inf" THEN a.n = 1 /\ b # a
     ELSE IF b.k = "inf" THEN b.n = -1
     ELSE a.n * b.d > b.n * a.d

FGt(a, b) == Strict2(GtOf, a, b)

FLt(a, b) == FGt(b, a)

\* a value of the form a + b*sqrt(v), or NaN; a, b, v are rationals
SurdOf(a, b, v) ==
  IF a.k # "num" \/ b.k # "num" \/ v.k # "num"
  THEN [k |-> "nan", a |-> F(0), b |-> F(0), v |-> F(0)]
  ELSE IF b.n = 0 \/ v.n = 0 THEN [k |-> "num", a |-> a, b |-> F(0), v |-> F(0)]
  ELSE [k |-> "num", a |-> a, b |-> b, v |-> v]

Surd(a, b, v) == Strict3(SurdOf, a, b, v)

SurdNaN == SurdOf(NaN, NaN, NaN)

\* sqrt of a rational
SqrtOf(x) == IF x.k = "num" /\ x.n >= 0 THEN SurdOf(F(0), F(1), x) ELSE SurdNaN

Sqrt(x) == Strict1(SqrtOf, x)

\* rational times surd
SurdScaleOf(c, s) ==
  IF s.k = "nan" THEN SurdNaN ELSE Surd(FMul(c, s.a), FMul(c, s.b), s.v)

SurdScale(c, s) == Strict2(SurdScaleOf, c, s)

\* rational plus surd
SurdShiftOf(c, s) == IF s.k = "nan" THEN SurdNaN ELSE Surd(FAdd(c, s.a), s.b, s.v)

SurdShift(c, s) == Strict2(SurdShiftOf, c, s)

\* ------------------------------------------- pandas / numpy series operations
\* Series.diff(): first element NaN
DiffOf(x) == [i \in 1..Len(x) |-> IF i = 1 THEN NaN ELSE FSub(x[i], x[i - 1])]

Diff(x) == Strict1(DiffOf, x)

\* np.where(delta > 0, delta, 0)
GainOf(delta) == [i \in 1..Len(delta) |-> IF FGt(delta[i], F(0)) THEN delta[i] ELSE F(0)]

\* the loss kept with its sign: np.where(delta < 0, delta, 0)
LossOfSigned(delta) == [i \in 1..Len(delta) |-> IF FLt(delta[i], F(0)) THEN delta[i] ELSE F(0)]

\* np.where(delta < 0, -delta, 0)
LossOf(delta) == [i \in 1..Len(delta) |-> IF FLt(delta[i], F(0)) THEN FNeg(delta[i]) ELSE F(0)]

\* an element counts as an observation of a rolling window when it is finite
Observed(v) == v.k = "num"

\* Series.rolling(window=w).mean(): a sliding sum and observation count
\* (st = [nobs, sum]); a value once the window holds min_periods = w
\* observations
AddMeanOf(st, v) ==
  IF Observed(v) THEN [nobs |-> st.nobs + 1, sum |-> FAdd(st.sum, v)] ELSE st

AddMean(st, v) == Strict2(AddMeanOf, st, v)

RemoveMeanOf(st, v) ==
  IF Observed(v) THEN [nobs |-> st.nobs - 1, sum |-> FSub(st.sum, v)] ELSE st

RemoveMean(st, v) == Strict2(RemoveMeanOf, st, v)

\* min_periods taken one too small
CalcMeanLoose(st, w) ==
  IF st.nobs >= w - 1 /\ st.nobs >= 1 THEN FDiv(st.sum, F(st.nobs)) ELSE NaN

CalcMean(st, w) == IF st.nobs >= w THEN FDiv(st.sum, F(st.nobs)) ELSE NaN

SlideMean(x, w, i, st) ==
  AddMean(IF i - w >= 1 THEN RemoveMean(st, x[i - w]) ELSE st, x[i])

RECURSIVE RollMeanFrom(_, _, _, _, _)
RollMeanEmit(x, w, i, st, acc) ==
  RollMeanFrom(x, w, i + 1, st, Append(acc, CalcMean(st, w)))

RollMeanFrom(x, w, i, st, acc) ==
  IF i > Len(x) THEN acc
  ELSE Strict2(LAMBDA s, a : RollMeanEmit(x, w, i, s, a), SlideMean(x, w, i, st), acc)

RollMeanOf(x, w) == RollMeanFrom(x, w, 1, [nobs |-> 0, sum |-> F(0)], <<>>)

RollMean(x, w) == Strict2(RollMeanOf, x, w)

\* Series.rolling(window=w).var(ddof=1): Welford's online update
\* (st = [nobs, mean, ssqdm]) with removal of the element leaving the window
VarState(n, mean, ssqdm) == [nobs |-> n, mean |-> mean, ssqdm |-> ssqdm]

AddVarMean(st, v, delta, mean) ==
  VarState(st.nobs + 1, mean, FAdd(st.ssqdm, FMul(FSub(v, mean), delta)))

AddVarDelta(st, v, delta) ==
  Strict1(LAMBDA m : AddVarMean(st, v, delta, m), FAdd(st.mean, FDiv(delta, F(st.nobs + 1))))

AddVarOf(st, v) ==
  IF Observed(v) THEN Strict1(LAMBDA d : AddVarDelta(st, v, d), FSub(v, st.mean)) ELSE st

AddVar(st, v) == Strict2(AddVarOf, st, v)

RemoveVarMean(st, v, delta, mean) ==
  VarState(st.nobs - 1, mean, FSub(st.ssqdm, FMul(FSub(v, mean), delta)))

RemoveVarDelta(st, v, delta) ==
  IF st.nobs = 1 THEN VarState(0, F(0), F(0))
  ELSE Strict1(LAMBDA m : RemoveVarMean(st, v, delta, m),
               FSub(st.mean, FDiv(delta, F(st.nobs - 1))))

RemoveVarOf(st, v) ==
  IF Observed(v) THEN Strict1(LAMBDA d : RemoveVarDelta(st, v, d), FSub(v, st.mean)) ELSE st

RemoveVar(st, v) == Strict2(RemoveVarOf, st, v)

\* population variance, ddof = 0
CalcVarPop(st, w) ==
  IF st.nobs >= w /\ st.nobs >= 1
  THEN (IF FLt(st.ssqdm, F(0)) THEN F(0) ELSE FDiv(st.ssqdm, F(st.nobs)))
  ELSE NaN

CalcVar(st, w) ==
  IF st.nobs >= w /\ st.nobs > 1
  THEN (IF FLt(st.ssqdm, F(0)) THEN F(0) ELSE FDiv(st.ssqdm, F(st.nobs - 1)))
  ELSE NaN

SlideVar(x, w, i, st) ==
  AddVar(IF i - w >= 1 THEN RemoveVar(st, x[i - w]) ELSE st, x[i])

RECURSIVE RollVarFrom(_, _, _, _, _)
RollVarEmit(x, w, i, st, acc) ==
  RollVarFrom(x, w, i + 1, st, Append(acc, CalcVar(st, w)))

RollVarFrom(x, w, i, st, acc) ==
  IF i > Len(x) THEN acc
  ELSE Strict2(LAMBDA s, a : RollVarEmit(x, w, i, s, a), SlideVar(x, w, i, st), acc)

RollVarOf(x, w) == RollVarFrom(x, w, 1, VarState(0, F(0), F(0)), <<>>)

RollVar(x, w) == Strict2(RollVarOf, x, w)

SqrtEach(v) == [i \in 1..Len(v) |-> Sqrt(v[i])]

\* Series.rolling(window=w).std(): square root of the rolling sample variance
RollStd(x, w) == Strict1(SqrtEach, RollVar(x, w))

\* Wilder's weighting 1/span in place of 2/(span+1)
AlphaWilder(span) == Rat(1, span)

\* Series.ewm(span=span, adjust=False).mean()
Alpha(span) == Rat(2, span + 1)

EwmNextOf(prev, cur, a) ==
  IF IsNaN(cur) THEN prev
  ELSE IF IsNaN(prev) THEN cur
  ELSE FAdd(FMul(FSub(F(1), a), prev), FMul(a, cur))

EwmNext(prev, cur, span) == Strict3(EwmNextOf, prev, cur, Alpha(span))

RECURSIVE EwmFrom(_, _, _, _)
EwmFrom(x, span, i, acc) ==
  IF i > Len(x) THEN acc
  ELSE Strict1(LAMBDA a : EwmFrom(x, span, i + 1, a),
               Append(acc, EwmNext(acc[i - 1], x[i], span)))

EwmOf(x, span) == IF Len(x) = 0 THEN <<>> ELSE EwmFrom(x, span, 2, <<x[1]>>)

Ewm(x, span) == Strict2(EwmOf, x, span)

\* Series.pct_change(): x / x.shift(1) - 1
PctChangeOf(x) ==
  [i \in 1..Len(x) |-> IF i = 1 THEN NaN ELSE FSub(FDiv(x[i], x[i - 1]), F(1))]

PctChange(x) == Strict1(PctChangeOf, x)

\* Series.cumprod(): running product that skips NaN; NaN stays NaN
RECURSIVE CumProdFrom(_, _, _, _)
CumProdKeep(x, i, prod, acc) == CumProdFrom(x, i + 1, prod, Append(acc, prod))

CumProdFrom(x, i, prod, acc) ==
  IF i > Len(x) THEN acc
  ELSE IF IsNaN(x[i]) THEN Strict1(LAMBDA a : CumProdFrom(x, i + 1, prod, a), Append(acc, NaN))
  ELSE Strict2(LAMBDA p, a : CumProdKeep(x, i, p, a), FMul(prod, x[i]), acc)

CumProdOf(x) == CumProdFrom(x, 1, F(1), <<>>)

CumProd(x) == Strict1(CumProdOf, x)

SeriesSubOf(x, y) == [i \in 1..Len(x) |-> FSub(x[i], y[i])]

SeriesSub(x, y) == Strict2(SeriesSubOf, x, y)

SeriesDivOf(x, y) == [i \in 1..Len(x) |-> FDiv(x[i], y[i])]

SeriesDiv(x, y) == Strict2(SeriesDivOf, x, y)

\* 100 - (100 / (1 + rs))
RsiOf(rs) == [i \in 1..Len(rs) |-> FSub(F(100), FDiv(F(100), FAdd(F(1), rs[i])))]

OnePlus(x) == [i \in 1..Len(x) |-> FAdd(F(1), x[i])]

LessOne(x) == [i \in 1..Len(x) |-> FSub(x[i], F(1))]

\* ------------------------------------------------------ compute_indicators
\* line 74: MACD
macd_of(ema_fast, ema_slow) == SeriesSub(ema_fast, ema_slow)

\* line 75: MACD_Signal
signal_of(macd, cfg) == Ewm(macd, cfg.macd_signal)

\* lines 69-70: a band, BB_Middle + k * std
band_of(mid, k, std) == [i \in 1..Len(mid) |-> SurdShift(mid[i], SurdScale(k, std[i]))]

\* the product taken over the returns themselves: Return.cumprod()
cumulative_of_raw(ret) == CumProd(ret)

\* line 79: (1 + Return).cumprod() - 1
cumulative_of(ret) == Strict1(LessOne, CumProd(Strict1(OnePlus, ret)))

\* line 58, 63: RSI from the two averages
rsi_of(avg_gain, avg_loss) == Strict1(RsiOf, SeriesDiv(avg_gain, avg_loss))

\* the slow EMA taken over one bar more than configured
LocalsFromSlowOff(close, delta, gain, loss, cfg) ==
  [delta |-> delta,
   gain |-> gain,
   loss |-> loss,
   avg_gain_short |-> RollMean(gain, cfg.short_rsi),
   avg_loss_short |-> RollMean(loss, cfg.short_rsi),
   avg_gain_long |-> RollMean(gain, cfg.long_rsi),
   avg_loss_long |-> RollMean(loss, cfg.long_rsi),
   std |-> RollStd(close, cfg.bb_period),
   ema_fast |-> Ewm(close, cfg.macd_fast),
   ema_slow |-> Ewm(close, cfg.macd_slow + 1)]

\* lines 55-56, 60-61, 66, 72-73: the locals computed from close, gain, loss
LocalsFrom(close, delta, gain, loss, cfg) ==
  [delta |-> delta,
   gain |-> gain,
   loss |-> loss,
   avg_gain_short |-> RollMean(gain, cfg.short_rsi),
   avg_loss_short |-> RollMean(loss, cfg.short_rsi),
   avg_gain_long |-> RollMean(gain, cfg.long_rsi),
   avg_loss_long |-> RollMean(loss, cfg.long_rsi),
   std |-> RollStd(close, cfg.bb_period),
   ema_fast |-> Ewm(close, cfg.macd_fast),
   ema_slow |-> Ewm(close, cfg.macd_slow)]

\* lines 50-53: delta, then gain and loss from it
LocalsOfDelta(df, cfg, delta) ==
  Strict2(LAMBDA g, l : LocalsFrom(df.Close, delta, g, l, cfg), GainOf(delta), LossOf(delta))

\* the local variables of compute_indicators at its return
Locals(df, cfg) == Strict1(LAMBDA d : LocalsOfDelta(df, cfg, d), Diff(df.Close))

\* the returns written over the Close column
ColumnsFromOverwrite(close, cfg, l, mid, macd, signal, ret) ==
  [Close |-> ret,
   MA_short |-> RollMean(close, cfg.short_ma),
   MA_long |-> RollMean(close, cfg.long_ma),
   RSI_short |-> rsi_of(l.avg_gain_short, l.avg_loss_short),
   RSI_long |-> rsi_of(l.avg_gain_long, l.avg_loss_long),
   BB_Middle |-> mid,
   BB_Upper |-> band_of(mid, cfg.bb_std, l.std),
   BB_Lower |-> band_of(mid, FNeg(cfg.bb_std), l.std),
   MACD |-> macd,
   MACD_Signal |-> signal,
   MACD_Hist |-> SeriesSub(macd, signal),
   Return |-> ret,
   CumulativeReturn |-> cumulative_of(ret)]

\* the columns of the frame at the return of compute_indicators
ColumnsFrom(close, cfg, l, mid, macd, signal, ret) ==
  [Close |-> close,
   MA_short |-> RollMean(close, cfg.short_ma),
   MA_long |-> RollMean(close, cfg.long_ma),
   RSI_short |-> rsi_of(l.avg_gain_short, l.avg_loss_short),
   RSI_long |-> rsi_of(l.avg_gain_long, l.avg_loss_long),
   BB_Middle |-> mid,
   BB_Upper |-> band_of(mid, cfg.bb_std, l.std),
   BB_Lower |-> band_of(mid, FNeg(cfg.bb_std), l.std),
   MACD |-> macd,
   MACD_Signal |-> signal,
   MACD_Hist |-> SeriesSub(macd, signal),
   Return |-> ret,
   CumulativeReturn |-> cumulative_of(ret)]

WithSignal(close, cfg, l, mid, macd, ret) ==
  Strict1(LAMBDA signal : ColumnsFrom(close, cfg, l, mid, macd, signal, ret),
          signal_of(macd, cfg))

Columns(df, cfg, l) ==
  Strict3(LAMBDA mid, macd, ret : WithSignal(df.Close, cfg, l, mid, macd, ret),
          RollMean(df.Close, cfg.bb_period),
          macd_of(l.ema_fast, l.ema_slow),
          PctChange(df.Close))

\* the frame compute_indicators returns: df with the indicator columns added
compute_indicators(df, cfg) == Strict1(LAMBDA l : Columns(df, cfg, l), Locals(df, cfg))

\* a downloaded frame holding the closes s
Frame(s) == [Close |-> [i \in 1..Len(s) |-> F(s[i])]]

\* ------------------------------------------------------------------ state
VARIABLES
  cfg,              \* the sidebar's indicator settings (module globals)
  selected_stocks,  \* the multiselect's value, in selection order
  idx,              \* position of the main loop in selected_stocks
  pc,               \* position of the script
  input,            \* contents of the frame object yf.download returned
  df,               \* contents of the frame the name df is bound to
  cache,            \* st.cache_data entries of compute_indicators
  market,           \* what the data source holds, per symbol asked so far
  log,              \* what the page shows for this run, in order
  calls,            \* stocks compute_indicators was called for in this run
  lastCall,         \* how the last compute_indicators call was served
  runs,             \* script runs so far
  loc,              \* local variables of compute_indicators at its return
  orig              \* contents of input when it was downloaded

vars == <<cfg, selected_stocks, idx, pc, input, df, cache, market, log, calls,
          lastCall, runs, loc, orig>>

\* stock_list
stock_list ==
  [k \in {"00878", "00912", "0050", "1815", "3231"} |->
     CASE k = "00878" -> "00878.TW"
       [] k = "00912" -> "00912.TW"
       [] k = "0050"  -> "0050.TW"
       [] k = "1815"  -> "1815.TW"
       [] k = "3231"  -> "3231.TW"]

\* the sidebar's default values
DefaultCfg ==
  [short_ma |-> 5, long_ma |-> 20, short_rsi |-> 6, long_rsi |-> 14,
   bb_period |-> 20, bb_std |-> F(2),
   macd_fast |-> 12, macd_slow |-> 26, macd_signal |-> 9]

PeriodFields ==
  {"short_ma", "long_ma", "short_rsi", "long_rsi", "bb_period",
   "macd_fast", "macd_slow", "macd_signal"}

Periods == 1..MaxPeriod

\* band widths tried: the smallest the input allows and the default
Widths == {Rat(1, 2), F(2)}

\* all sequences over S of length at most n
RECURSIVE SeqsUpTo(_, _)
SeqsUpTo(S, n) ==
  IF n = 0 THEN {<<>>}
  ELSE LET shorter == SeqsUpTo(S, n - 1)
       IN shorter \cup {Append(q, x) : q \in {r \in shorter : Len(r) = n - 1}, x \in S}

\* price series given to the computation
SeriesSet == SeqsUpTo(0..MaxPrice, MaxLen)

\* price series the data source may hold for a symbol
AppSeriesSet == SeqsUpTo(1..AppMaxPrice, AppMaxLen)

\* configurations given to the computation: the parameters of one indicator
\* family range over all their values, the others stay at small fixed values
BaseCfg ==
  [short_ma |-> 1, long_ma |-> 2, short_rsi |-> 1, long_rsi |-> 2,
   bb_period |-> 2, bb_std |-> F(2),
   macd_fast |-> 1, macd_slow |-> 2, macd_signal |-> 1]

ConfigSet ==
  {[BaseCfg EXCEPT !.short_ma = a, !.long_ma = b] : a \in Periods, b \in Periods}
  \cup {[BaseCfg EXCEPT !.short_rsi = a, !.long_rsi = b] : a \in Periods, b \in Periods}
  \cup {[BaseCfg EXCEPT !.bb_period = a, !.bb_std = w] : a \in Periods, w \in Widths}
  \cup {[BaseCfg EXCEPT !.macd_fast = a, !.macd_slow = b, !.macd_signal = c] :
          a \in Periods, b \in Periods, c \in Periods}

NoFrame == Frame(<<>>)

NoLocals == Locals(NoFrame, BaseCfg)

\* st.cache_data keys an entry by the hash of the call's arguments
CacheKey(frame) == frame

CacheHit(frame) == \E e \in cache : e.key = CacheKey(frame)

Cached(frame) == (CHOOSE e \in cache : e.key = CacheKey(frame)).value

\* ------------------------------------------------------------ the session
\* first run of the script with the widgets at their defaults (lines 7-42)
Init ==
  /\ cfg = DefaultCfg
  /\ selected_stocks = <<"00878">>
  /\ idx = 1
  /\ pc = "loop"
  /\ input = NoFrame
  /\ df = NoFrame
  /\ cache = {}
  /\ market = <<>>
  /\ log = <<>>
  /\ calls = <<>>
  /\ lastCall = "none"
  /\ runs = 1
  /\ loc = NoLocals
  /\ orig = NoFrame

\* lines 84-87: next stock of the loop, yf.download
Download ==
  /\ pc = "loop"
  /\ idx <= Len(selected_stocks)
  /\ LET stock_code == stock_list[selected_stocks[idx]]
     IN \E s \in AppSeriesSet :
          /\ stock_code \in DOMAIN market => s = market[stock_code]
          /\ market' = IF stock_code \in DOMAIN market THEN market
                       ELSE (stock_code :> s) @@ market
          /\ input' = Frame(s)
          /\ df' = Frame(s)
          /\ orig' = Frame(s)
  /\ pc' = "fetched"
  /\ UNCHANGED <<cfg, selected_stocks, idx, cache, log, calls, lastCall, runs, loc>>

\* empty frame: warn and leave the loop (break in place of continue)
NoDataBreak ==
  /\ pc = "fetched"
  /\ Len(df.Close) = 0
  /\ log' = Append(log, [stock |-> selected_stocks[idx], kind |-> "warning"])
  /\ idx' = Len(selected_stocks) + 1
  /\ pc' = "loop"
  /\ UNCHANGED <<cfg, selected_stocks, input, df, cache, market, calls, lastCall,
                 runs, loc, orig>>

\* lines 89-91: empty frame, warn and continue with the next stock
NoData ==
  /\ pc = "fetched"
  /\ Len(df.Close) = 0
  /\ log' = Append(log, [stock |-> selected_stocks[idx], kind |-> "warning"])
  /\ idx' = idx + 1
  /\ pc' = "loop"
  /\ UNCHANGED <<cfg, selected_stocks, input, df, cache, market, calls, lastCall,
                 runs, loc, orig>>

\* line 93 with the st.cache_data wrapper of line 45: a hit returns a copy of
\* the stored value; a miss runs the body, which adds its columns to the
\* frame it was given and returns that frame, and stores the result
CallCompute ==
  /\ pc = "fetched"
  /\ Len(df.Close) > 0
  /\ IF CacheHit(df)
     THEN /\ df' = Cached(df)
          /\ lastCall' = "hit"
          /\ UNCHANGED <<input, cache>>
     ELSE /\ df' = compute_indicators(df, cfg)
          /\ input' = df'
          /\ cache' = cache \cup {[key |-> CacheKey(df), value |-> df']}
          /\ lastCall' = "miss"
  /\ calls' = Append(calls, selected_stocks[idx])
  /\ pc' = "computed"
  /\ UNCHANGED <<cfg, selected_stocks, idx, market, log, runs, loc, orig>>

\* lines 95-147: the four tabs of charts for this stock
Render ==
  /\ pc = "computed"
  /\ log' = Append(log, [stock |-> selected_stocks[idx], kind |-> "charts"])
  /\ idx' = idx + 1
  /\ pc' = "loop"
  /\ UNCHANGED <<cfg, selected_stocks, input, df, cache, market, calls, lastCall,
                 runs, loc, orig>>

\* the loop of line 84 is exhausted: the script ends and waits for input
EndRun ==
  /\ pc = "loop"
  /\ idx > Len(selected_stocks)
  /\ pc' = "idle"
  /\ UNCHANGED <<cfg, selected_stocks, idx, input, df, cache, market, log, calls,
                 lastCall, runs, loc, orig>>

\* the script starts over after a widget changed; the cache outlives the run
Restart ==
  /\ pc = "idle"
  /\ runs < MaxRuns
  /\ runs' = runs + 1
  /\ idx' = 1
  /\ pc' = "loop"
  /\ log' = <<>>
  /\ calls' = <<>>
  /\ UNCHANGED <<input, df, cache, market, lastCall, loc, orig>>

\* lines 30-34, 36-38: the user sets a period input
ChangePeriod ==
  /\ Restart
  /\ \E f \in PeriodFields : \E v \in Periods \ {cfg[f]} : cfg' = [cfg EXCEPT ![f] = v]
  /\ UNCHANGED selected_stocks

\* line 35: the user sets the band width
ChangeWidth ==
  /\ Restart
  /\ \E w \in Widths \ {cfg.bb_std} : cfg' = [cfg EXCEPT !.bb_std = w]
  /\ UNCHANGED selected_stocks

\* line 22: the user adds a stock to the multiselect
AddStock ==
  /\ Restart
  /\ \E k \in DOMAIN stock_list \ {selected_stocks[j] : j \in 1..Len(selected_stocks)} :
       selected_stocks' = Append(selected_stocks, k)
  /\ UNCHANGED cfg

\* line 22: the user removes a stock from the multiselect
RemoveStock ==
  /\ Restart
  /\ \E j \in 1..Len(selected_stocks) :
       selected_stocks' = [m \in 1..(Len(selected_stocks) - 1) |->
                             IF m < j THEN selected_stocks[m] ELSE selected_stocks[m + 1]]
  /\ UNCHANGED cfg

Next ==
  \/ Download
  \/ NoData
  \/ CallCompute
  \/ Render
  \/ EndRun
  \/ ChangePeriod
  \/ ChangeWidth
  \/ AddStock
  \/ RemoveStock

Spec == Init /\ [][Next]_vars

\* a step of the running script
ScriptStep == Download \/ NoData \/ CallCompute \/ Render \/ EndRun

\* the script runs to its end once started: its steps are not held back
LiveSpec == Spec /\ WF_vars(ScriptStep)

\* ------------------------------------------- the computation on its own
\* compute_indicators is about to be called on a frame under a configuration
ComputeInit ==
  /\ cfg \in ConfigSet
  /\ \E s \in SeriesSet : /\ input = Frame(s)
                          /\ df = Frame(s)
                          /\ orig = Frame(s)
  /\ pc = "call"
  /\ selected_stocks = <<>>
  /\ idx = 1
  /\ cache = {}
  /\ market = <<>>
  /\ log = <<>>
  /\ calls = <<>>
  /\ lastCall = "none"
  /\ runs = 1
  /\ loc = NoLocals

\* lines 46-81: the body runs, adds its columns to the frame and returns it
Body ==
  /\ pc = "call"
  /\ loc' = Locals(df, cfg)
  /\ df' = Columns(df, cfg, loc')
  /\ input' = df'
  /\ lastCall' = "miss"
  /\ pc' = "return"
  /\ UNCHANGED <<cfg, selected_stocks, idx, cache, market, log, calls, runs, orig>>

ComputeNext == Body

ComputeSpec == ComputeInit /\ [][ComputeNext]_vars

\* ================================================================ claims
\* the closes given to the call, their number, and "the call has returned"
Closes == orig.Close

N == Len(orig.Close)

Returned == pc = "return"

\* sum and arithmetic mean of x[lo..hi], computed directly
RECURSIVE SumRange(_, _, _)
SumRange(x, lo, hi) == IF lo > hi THEN F(0) ELSE FAdd(x[lo], SumRange(x, lo + 1, hi))

WindowMean(x, lo, hi) == FDiv(SumRange(x, lo, hi), F(hi - lo + 1))

Present(v) == v.k # "nan"

\* ---------------------------------------------------------------- C1
\* C1: the frame a compute call returns is what a fresh computation gives
\* for the series it was called on and the configuration in force at the
\* call, in any sequence of calls.
C1_FreshOutput == pc = "computed" => df = compute_indicators(orig, cfg)

\* ---------------------------------------------------------------- C2
IndicatorColumns ==
  {"MA_short", "MA_long", "RSI_short", "RSI_long", "BB_Middle", "BB_Upper", "BB_Lower",
   "MACD", "MACD_Signal", "MACD_Hist", "Return", "CumulativeReturn"}

HasData(k) == market[stock_list[k]] # <<>>

\* the stocks whose iteration has begun and passed the download
Reached ==
  SubSeq(selected_stocks, 1, Len(log) + (IF pc = "computed" THEN 1 ELSE 0))

\* what the page shows and which calls were made agree, stock by stock and
\* in order, with the data each selected stock has
RunInOrder ==
  /\ Len(log) <= Len(selected_stocks)
  /\ \A j \in 1..Len(log) :
       /\ log[j].stock = selected_stocks[j]
       /\ log[j].kind = IF HasData(selected_stocks[j]) THEN "charts" ELSE "warning"
  /\ calls = SelectSeq(Reached, HasData)

RunComplete == pc = "idle" => Len(log) = Len(selected_stocks)

\* C3: every selected instrument is eventually processed, in order; one
\* with an empty series gets the no-data notice and no compute call, and
\* every later instrument with data still gets its compute call and charts.
C3_Isolation ==
  /\ [](RunInOrder /\ RunComplete)
  /\ (pc # "idle") ~> (pc = "idle")

C3_Witness ==
  /\ pc = "idle"
  /\ Len(selected_stocks) = 2
  /\ log = <<[stock |-> selected_stocks[1], kind |-> "warning"],
             [stock |-> selected_stocks[2], kind |-> "charts"]>>
  /\ calls = <<selected_stocks[2]>>

\* ---------------------------------------------------------------- C4
MAWindowed(ma, w) ==
  /\ Len(ma) = N
  /\ \A j \in 1..N :
       IF j < w THEN IsNaN(ma[j]) ELSE ma[j] = WindowMean(Closes, j - w + 1, j)

\* C4: for a series of length n and a window w >= 1, short and long alike,
\* the moving average is absent at every index below w-1 and is the
\* arithmetic mean of close[i-w+1..i] at every index from w-1 on; a window
\* longer than the series leaves the column absent everywhere.
C4_MAWindowing ==
  Returned => MAWindowed(df.MA_short, cfg.short_ma) /\ MAWindowed(df.MA_long, cfg.long_ma)

C4_Witness ==
  /\ Returned
  /\ Closes = Frame(<<1, 2>>).Close
  /\ cfg.short_ma = 2 /\ cfg.long_ma = 3
  /\ IsNaN(df.MA_short[1]) /\ df.MA_short[2] = Rat(3, 2)
  /\ IsNaN(df.MA_long[1]) /\ IsNaN(df.MA_long[2])

\* ---------------------------------------------------------------- C5
RSIWarmup(avg_gain, avg_loss, rsi, w) ==
  \A j \in 1..N : j - 1 < w => IsNaN(avg_gain[j]) /\ IsNaN(avg_loss[j]) /\ IsNaN(rsi[j])

\* C5: for an RSI window w the averages avg_gain[i], avg_loss[i] and RSI[i]
\* are absent at every index i < w, RSI being first defined at index w.
C5_RSIWarmup ==
  Returned =>
    /\ RSIWarmup(loc.avg_gain_short, loc.avg_loss_short, df.RSI_short, cfg.short_rsi)
    /\ RSIWarmup(loc.avg_gain_long, loc.avg_loss_long, df.RSI_long, cfg.long_rsi)

\* ---------------------------------------------------------------- C6
RSIRanged(avg_gain, avg_loss, rsi) ==
  \A j \in 1..N :
    /\ Present(rsi[j]) => IsNum(rsi[j]) /\ ~FLt(rsi[j], F(0)) /\ ~FGt(rsi[j], F(100))
    /\ rsi[j] = F(100) <=> (avg_loss[j] = F(0) /\ FGt(avg_gain[j], F(0)))
    /\ (avg_loss[j] = F(0) /\ avg_gain[j] = F(0)) => IsNaN(rsi[j])

\* C6: whenever RSI[i] is defined it lies in [0,100]; it is 100 exactly when
\* avg_loss[i] = 0 and avg_gain[i] > 0; it is absent when both averages are 0.
C6_RSIRange ==
  Returned =>
    /\ RSIRanged(loc.avg_gain_short, loc.avg_loss_short, df.RSI_short)
    /\ RSIRanged(loc.avg_gain_long, loc.avg_loss_long, df.RSI_long)

C6_Witness ==
  /\ Returned
  /\ Closes = Frame(<<1, 2, 2>>).Close
  /\ cfg.short_rsi = 2 /\ cfg.long_rsi = 1
  /\ loc.avg_loss_short[3] = F(0) /\ loc.avg_gain_short[3] = Rat(1, 2)
  /\ df.RSI_short[3] = F(100)
  /\ loc.avg_loss_long[3] = F(0) /\ loc.avg_gain_long[3] = F(0) /\ IsNaN(df.RSI_long[3])

\* ---------------------------------------------------------------- C7
\* C7: when macd_fast equals macd_slow, MACD, MACD_Signal and MACD_Hist are
\* 0 at every index, for every series and signal period.
C7_MACDDegenerate ==
  (Returned /\ cfg.macd_fast = cfg.macd_slow) =>
    \A j \in 1..N : df.MACD[j] = F(0) /\ df.MACD_Signal[j] = F(0) /\ df.MACD_Hist[j] = F(0)

C7_Witness ==
  /\ Returned
  /\ cfg.macd_fast = cfg.macd_slow /\ cfg.macd_fast > 1 /\ cfg.macd_signal > 1
  /\ N = 3
  /\ loc.ema_fast[3] # Closes[3] /\ loc.ema_fast[3] # loc.ema_fast[2]
  /\ df.MACD[3] = F(0) /\ df.MACD_Signal[3] = F(0) /\ df.MACD_Hist[3] = F(0)

\* ---------------------------------------------------------------- C8
NoZeroClose == \A j \in 1..N : Closes[j] # F(0)

\* C8: on a series with no zero close, cumulative_return[i] equals
\* (close[i] - close[0]) / close[0] at every i >= 1, Return[i] is
\* (close[i] - close[i-1]) / close[i-1], and both columns are absent at 0.
C8_Telescoping ==
  (Returned /\ NoZeroClose /\ N >= 1) =>
    /\ IsNaN(df.Return[1]) /\ IsNaN(df.CumulativeReturn[1])
    /\ \A j \in 2..N :
         /\ df.Return[j] = FDiv(FSub(Closes[j], Closes[j - 1]), Closes[j - 1])
         /\ df.CumulativeReturn[j] = FDiv(FSub(Closes[j], Closes[1]), Closes[1])

C8_Witness ==
  /\ Returned
  /\ Closes = Frame(<<2, 1, 2>>).Close
  /\ df.Return[2] = Rat(-1, 2) /\ df.Return[3] = F(1)
  /\ df.CumulativeReturn[2] = Rat(-1, 2) /\ df.CumulativeReturn[3] = F(0)

\* ---------------------------------------------------------------- C9
\* surd minus rational, and rational minus surd
SurdLess(s, c) == SurdShift(FNeg(c), s)

LessSurd(c, s) == SurdShift(c, SurdScale(F(-1), s))

BandsAt(j) ==
  /\ Present(df.BB_Middle[j]) /\ Present(df.BB_Upper[j]) /\ Present(df.BB_Lower[j])
  /\ Present(loc.std[j])
  /\ SurdLess(df.BB_Upper[j], df.BB_Middle[j]) = SurdScale(cfg.bb_std, loc.std[j])
  /\ LessSurd(df.BB_Middle[j], df.BB_Lower[j]) = SurdScale(cfg.bb_std, loc.std[j])

BandsAbsentAt(j) == IsNaN(df.BB_Upper[j]) /\ IsNaN(df.BB_Lower[j]) /\ IsNaN(loc.std[j])

\* C9 as stated: for every bollinger_period w >= 1, bb_middle, bb_upper and
\* bb_lower are all absent below index w-1 and all present from w-1 on, with
\* bb_upper - bb_middle = bb_middle - bb_lower = width * std there.
C9_BollingerWindowing ==
  Returned =>
    \A j \in 1..N :
      IF j < cfg.bb_period THEN IsNaN(df.BB_Middle[j]) /\ BandsAbsentAt(j)
      ELSE BandsAt(j)

\* C9 amended: the statement holds for every bollinger_period w >= 2; for
\* w = 1 the sample standard deviation of one value is undefined, so
\* bb_middle is present (equal to close) at every index while std, bb_upper
\* and bb_lower are absent at every index.
C9_BollingerAmended ==
  Returned =>
    \A j \in 1..N :
      IF cfg.bb_period = 1 THEN df.BB_Middle[j] = Closes[j] /\ BandsAbsentAt(j)
      ELSE IF j < cfg.bb_period THEN IsNaN(df.BB_Middle[j]) /\ BandsAbsentAt(j)
      ELSE BandsAt(j)

C9_Witness ==
  /\ Returned
  /\ cfg.bb_period = 2 /\ cfg.bb_std = Rat(1, 2)
  /\ Closes = Frame(<<1, 2, 2>>).Close
  /\ IsNaN(df.BB_Middle[1]) /\ BandsAbsentAt(1)
  /\ BandsAt(2) /\ loc.std[2] = Sqrt(Rat(1, 2))
  /\ BandsAt(3) /\ df.BB_Upper[3] = df.BB_Lower[3]

\* --------------------------------------------------------------- C10
\* the weighting factor 2/(span+1)
Weight(span) == Rat(2, span + 1)

\* y is the recurrence y[0] = x[0], y[i] = a*x[i] + (1-a)*y[i-1] over x
Recurrence(y, x, span) ==
  /\ Len(y) = Len(x)
  /\ y[1] = x[1]
  /\ \A j \in 2..Len(x) :
       y[j] = FAdd(FMul(Weight(span), x[j]), FMul(FSub(F(1), Weight(span)), y[j - 1]))

ConstantClose == \A j \in 1..N : Closes[j] = Closes[1]

\* C10: on a non-empty series macd, macd_signal and macd_hist are defined at
\* every index; each EMA starts at the first value of its input and follows
\* EMA[i] = a*x[i] + (1-a)*EMA[i-1], a = 2/(span+1); a constant close
\* series gives EMA[i] = c at every index.
C10_MACDNoGap ==
  (Returned /\ N >= 1) =>
    /\ \A j \in 1..N : IsNum(df.MACD[j]) /\ IsNum(df.MACD_Signal[j]) /\ IsNum(df.MACD_Hist[j])
    /\ Recurrence(loc.ema_fast, Closes, cfg.macd_fast)
    /\ Recurrence(loc.ema_slow, Closes, cfg.macd_slow)
    /\ Recurrence(df.MACD_Signal, df.MACD, cfg.macd_signal)
    /\ \A j \in 1..N : /\ df.MACD[j] = FSub(loc.ema_fast[j], loc.ema_slow[j])
                       /\ df.MACD_Hist[j] = FSub(df.MACD[j], df.MACD_Signal[j])
    /\ ConstantClose => \A j \in 1..N : loc.ema_fast[j] = Closes[1] /\ loc.ema_slow[j] = Closes[1]

C10_Witness ==
  /\ Returned
  /\ N = 3 /\ ~ConstantClose
  /\ cfg.macd_fast = 2 /\ cfg.macd_slow = 3 /\ cfg.macd_signal = 2
  /\ df.MACD[1] = F(0) /\ df.MACD_Signal[1] = F(0)
  /\ df.MACD[3] # F(0) /\ df.MACD_Hist[3] # F(0)

====
